---- MODULE Spec2Model ----
(***************************************************************************)
(* DolphinScript (src/main.rs): the line parser, the type checker and the  *)
(* tree-walking evaluator, as a state machine over the interpreter's       *)
(* Context (vars, types, funcs, shell) and its observable effects.         *)
(*                                                                         *)
(* Source text is modelled as TLA+ strings, handled character by character *)
(* (Len, SubSeq, \o), so that parsing is computed as the code computes it. *)
(* Statements and expressions are records carrying the variant in `kind';  *)
(* types and values are records carrying the variant in `tag'.             *)
(***************************************************************************)
EXTENDS Integers, Sequences, FiniteSets, TLC

VARIABLES
    mode,             \* "ast": exec_stmt driven directly; "script": main -> run_script
    phase,            \* "read" | "run" | "stopped" | "done" | "panicked" | "looping"
    src,              \* script mode: the file's lines (src.lines())
    prog,             \* script mode: parse_program's result
    pc,               \* script mode: index of the next statement of prog
    vars,             \* Context.vars  : name -> Value
    types,            \* Context.types : name -> Type
    funcs,            \* Context.funcs : name -> (params, ret, body)
    shell,            \* Context.shell
    out,              \* lines written to stdout
    err,              \* type errors written to stderr
    launched,         \* argv of every external command launched
    overflow_checks,  \* build profile: TRUE = i64 overflow panics, FALSE = it wraps
    steps,            \* number of top-level exec_stmt calls made so far
    last              \* history: the last top-level exec_stmt call (statement, Context before, call log)

varsAll == <<mode, phase, src, prog, pc, vars, types, funcs, shell, out, err,
             launched, overflow_checks, steps, last>>

-----------------------------------------------------------------------------
(* Bounds of the model *)

\* top-level statements executed in one run of the "ast" driver
MaxSteps == 3
\* iterations of one `while' after which the model stops following the loop
MaxIter == 3
\* width of the model's integers, standing for i64's 64 bits
IntBits == 4

-----------------------------------------------------------------------------
(* Type (enum Type) and Value (enum Value).  Value::List is never built by  *)
(* any code path of the interpreter (parse_expr has no list literal), so no *)
(* List value exists in a reachable Context.                                *)

TInt   == [tag |-> "Int"]
TFloat == [tag |-> "Float"]
TBool  == [tag |-> "Bool"]
TStr   == [tag |-> "Str"]
TVoid  == [tag |-> "Void"]
TList(t) == [tag |-> "List", elem |-> t]

VInt(i)   == [tag |-> "Int",   val |-> i]
\* a Float's payload is its value counted in halves (1.5 is 3): exact for the
\* dyadic literals the model is fed
VFloat(h) == [tag |-> "Float", val |-> h]
VBool(b)  == [tag |-> "Bool",  val |-> b]
VStr(s)   == [tag |-> "Str",   val |-> s]

get_type(v) == [tag |-> v.tag]

IntMin == -(2 ^ (IntBits - 1))
IntMax == (2 ^ (IntBits - 1)) - 1
WrapInt(x) == ((x - IntMin) % (2 ^ IntBits)) + IntMin

Digits == <<"0", "1", "2", "3", "4", "5", "6", "7", "8", "9">>

RECURSIVE NatToStr(_)
NatToStr(n) == IF n < 10 THEN Digits[n + 1]
               ELSE NatToStr(n \div 10) \o Digits[(n % 10) + 1]

\* impl fmt::Display for Value
to_string(v) ==
    CASE v.tag = "Int"   -> IF v.val < 0 THEN "-" \o NatToStr(-v.val) ELSE NatToStr(v.val)
      [] v.tag = "Float" -> LET a == IF v.val < 0 THEN -v.val ELSE v.val
                                s == IF v.val < 0 THEN "-" ELSE ""
                            IN  s \o NatToStr(a \div 2) \o (IF a % 2 = 1 THEN ".5" ELSE "")
      [] v.tag = "Bool"  -> IF v.val THEN "true" ELSE "false"
      [] v.tag = "Str"   -> v.val

-----------------------------------------------------------------------------
(* AST (enum Expr, enum Stmt) *)

Literal(v)      == [kind |-> "Literal", v |-> v]
Var(n)          == [kind |-> "Var", n |-> n]
BinOp(a, op, b) == [kind |-> "BinOp", a |-> a, op |-> op, b |-> b]
Call(n, args)   == [kind |-> "Call", n |-> n, args |-> args]

VarDef(n, ty, e)         == [kind |-> "VarDef", n |-> n, ty |-> ty, e |-> e]
PrintStmt(es)            == [kind |-> "Print", es |-> es]
Shell(cmds)              == [kind |-> "Shell", cmds |-> cmds]
SetShell(sh)             == [kind |-> "SetShell", sh |-> sh]
If(cond, t, e)           == [kind |-> "If", cond |-> cond, t |-> t, e |-> e]
While(cond, body)        == [kind |-> "While", cond |-> cond, body |-> body]
FuncDef(n, ps, ret, body) == [kind |-> "FuncDef", n |-> n, params |-> ps, ret |-> ret, body |-> body]
Exit                     == [kind |-> "Exit"]
Clear                    == [kind |-> "Clear"]
Help                     == [kind |-> "Help"]
ExprStmt(e)              == [kind |-> "ExprStmt", e |-> e]

\* HashMap::insert
Insert(m, k, v) == (k :> v) @@ m
EmptyMap == << >>

-----------------------------------------------------------------------------
(* Type checker *)

TcOk(ty)   == [ok |-> TRUE, ty |-> ty]
TcErr(msg) == [ok |-> FALSE, err |-> msg]

RECURSIVE type_check_expr(_, _)
type_check_expr(expr, tys) ==
    CASE expr.kind = "Literal" -> TcOk(get_type(expr.v))
      [] expr.kind = "Var" ->
            IF expr.n \in DOMAIN tys THEN TcOk(tys[expr.n])
            ELSE TcErr("Unknown var " \o expr.n)
      [] expr.kind = "BinOp" ->
            LET at == type_check_expr(expr.a, tys) IN
            IF ~at.ok THEN at
            ELSE LET bt == type_check_expr(expr.b, tys) IN
                 IF ~bt.ok THEN bt
                 ELSE IF at.ty # bt.ty THEN TcErr("Type mismatch in binop")
                 ELSE TcOk(at.ty)
      [] expr.kind = "Call" -> TcErr("Function calls not yet typed")

\* the first failure among the arguments of a Print, in order
RECURSIVE type_check_exprs(_, _)
type_check_exprs(es, tys) ==
    IF es = << >> THEN TcOk(TVoid)
    ELSE LET r == type_check_expr(Head(es), tys) IN
         IF ~r.ok THEN r ELSE type_check_exprs(Tail(es), tys)

\* `for (n,ty) in params { ctx.types.insert(n,ty) }'
RECURSIVE InstallParams(_, _)
InstallParams(ps, tys) ==
    IF ps = << >> THEN tys
    ELSE InstallParams(Tail(ps), Insert(tys, Head(ps)[1], Head(ps)[2]))

\* The checker's result: ok, the error if not, and the Context's types and
\* funcs as the call leaves them (it mutates them also when it fails).
SOk(c)       == [ok |-> TRUE,  err |-> "", types |-> c.types, funcs |-> c.funcs]
SErr(msg, c) == [ok |-> FALSE, err |-> msg, types |-> c.types, funcs |-> c.funcs]

RECURSIVE type_check_stmt(_, _), type_check_block(_, _)

\* mutant: the scope is cleared instead of restored to the snapshot
FuncDef_restore_cleared(stmt, c, prev, r) ==
    SOk([types |-> EmptyMap,
         funcs |-> Insert(r.funcs, stmt.n,
                          [params |-> stmt.params, ret |-> stmt.ret, body |-> stmt.body])])

\* `ctx.types=prev; ctx.funcs.insert(name, (params, ret, body)); Ok(())'
FuncDef_restore(stmt, c, prev, r) ==
    SOk([types |-> prev,
         funcs |-> Insert(r.funcs, stmt.n,
                          [params |-> stmt.params, ret |-> stmt.ret, body |-> stmt.body])])

type_check_FuncDef(stmt, c) ==
    LET prev == c.types
        r    == type_check_block(stmt.body,
                    [types |-> InstallParams(stmt.params, c.types), funcs |-> c.funcs])
    IN  IF ~r.ok THEN r          \* `?' returns before `ctx.types=prev'
        ELSE FuncDef_restore(stmt, c, prev, r)

type_check_VarDef(stmt, c) ==
    LET et == type_check_expr(stmt.e, c.types) IN
    IF ~et.ok THEN SErr(et.err, c)
    ELSE IF et.ty # stmt.ty THEN SErr("Type mismatch for " \o stmt.n, c)
    ELSE SOk([types |-> Insert(c.types, stmt.n, stmt.ty), funcs |-> c.funcs])

type_check_stmt(stmt, c) ==
    CASE stmt.kind = "VarDef" -> type_check_VarDef(stmt, c)
      [] stmt.kind = "Print" ->
            LET r == type_check_exprs(stmt.es, c.types) IN
            IF ~r.ok THEN SErr(r.err, c) ELSE SOk(c)
      [] stmt.kind \in {"Shell", "SetShell", "Exit", "Clear", "Help"} -> SOk(c)
      [] stmt.kind = "If" ->
            LET ct == type_check_expr(stmt.cond, c.types) IN
            IF ~ct.ok THEN SErr(ct.err, c)
            ELSE IF ct.ty # TBool THEN SErr("Condition must be bool", c)
            ELSE LET rt == type_check_block(stmt.t, c) IN
                 IF ~rt.ok THEN rt ELSE type_check_block(stmt.e, rt)
      [] stmt.kind = "While" ->
            LET ct == type_check_expr(stmt.cond, c.types) IN
            IF ~ct.ok THEN SErr(ct.err, c)
            ELSE IF ct.ty # TBool THEN SErr("While cond must be bool", c)
            ELSE type_check_block(stmt.body, c)
      [] stmt.kind = "FuncDef" -> type_check_FuncDef(stmt, c)
      [] stmt.kind = "ExprStmt" ->
            LET r == type_check_expr(stmt.e, c.types) IN
            IF ~r.ok THEN SErr(r.err, c) ELSE SOk(c)

\* `for s in body { type_check_stmt(s,ctx)?; }'
type_check_block(stmts, c) ==
    IF stmts = << >> THEN SOk(c)
    ELSE LET r == type_check_stmt(Head(stmts), c) IN
         IF ~r.ok THEN r ELSE type_check_block(Tail(stmts), r)

-----------------------------------------------------------------------------
(* Evaluator *)

Some(v) == [k |-> "Some", v |-> v]
None    == [k |-> "None"]
\* the process panics: integer division by zero or i64 overflow
Panic   == [k |-> "Panic"]

InRange(x) == IntMin <= x /\ x <= IntMax

\* i64 `+', `-', `*': overflow panics under overflow checks and wraps otherwise
Arith(x, oc) == IF InRange(x) THEN Some(VInt(x))
                ELSE IF oc THEN Panic ELSE Some(VInt(WrapInt(x)))

Abs(x) == IF x < 0 THEN -x ELSE x
\* i64 `/' truncates toward zero
TruncDiv(p, q) == IF (p < 0) = (q < 0) THEN Abs(p) \div Abs(q) ELSE -(Abs(p) \div Abs(q))

\* the `match (x,y,*op)' of eval_expr
apply_op(x, y, op, oc) ==
    IF x.tag = "Int" /\ y.tag = "Int" /\ op \in {"+", "-", "*", "/"} THEN
        CASE op = "+" -> Arith(x.val + y.val, oc)
          [] op = "-" -> Arith(x.val - y.val, oc)
          [] op = "*" -> Arith(x.val * y.val, oc)
          [] op = "/" -> IF y.val = 0 \/ (x.val = IntMin /\ y.val = -1) THEN Panic
                         ELSE Some(VInt(TruncDiv(x.val, y.val)))
    ELSE IF x.tag = "Float" /\ y.tag = "Float" /\ op \in {"+", "-", "*", "/"} THEN
        CASE op = "+" -> Some(VFloat(x.val + y.val))
          [] op = "-" -> Some(VFloat(x.val - y.val))
          \* products and quotients of halves are not halves in general: the
          \* result is kept opaque, and no statement of the model's pools reads it
          [] op = "*" -> Some(VFloat("product"))
          [] op = "/" -> Some(VFloat("quotient"))
    ELSE None

RECURSIVE eval_expr(_, _)
eval_expr(e, m) ==
    CASE e.kind = "Literal" -> Some(e.v)
      [] e.kind = "Var" -> IF e.n \in DOMAIN m.vars THEN Some(m.vars[e.n]) ELSE None
      [] e.kind = "BinOp" ->
            LET x == eval_expr(e.a, m) IN
            IF x.k # "Some" THEN x
            ELSE LET y == eval_expr(e.b, m) IN
                 IF y.k # "Some" THEN y
                 ELSE apply_op(x.v, y.v, e.op, m.oc)
      [] e.kind = "Call" -> None

\* `.map(|e| eval_expr(e,ctx).unwrap().to_string())', lazily and in order: the
\* display forms, or "panic" at the first argument without a value
RECURSIVE eval_args(_, _)
eval_args(es, m) ==
    IF es = << >> THEN << >>
    ELSE LET x == eval_expr(Head(es), m) IN
         IF x.k # "Some" THEN "panic"
         ELSE LET rest == eval_args(Tail(es), m) IN
              IF rest = "panic" THEN "panic" ELSE <<to_string(x.v)>> \o rest

\* `.join(" ")'
RECURSIVE join(_)
join(ss) == IF ss = << >> THEN ""
            ELSE IF Len(ss) = 1 THEN ss[1]
            ELSE ss[1] \o " " \o join(Tail(ss))

ClearSeq == "ESC[2JESC[1;1H"
HelpText == <<"help:", " var x:Type = expr", " print(expr,...)", " shell cmd...",
              " setshell /bin/bash", " if...then...else...end", " while...do...end",
              " fn name(p:Type,...)->Type...end", " exit, clear, help">>

-----------------------------------------------------------------------------
(* exec_stmt.  m is the Context with the process's effects so far:         *)
(*   vars, types, funcs, shell, out, err, launched, oc (overflow checks),   *)
(*   status: "ok" | "panic" (the process died) | "unfinished" (a loop that  *)
(*           is still running after MaxIter iterations),                    *)
(*   ret:    the value the last completed exec_stmt returned,               *)
(*   depth, log: history of the calls: one "call" entry per exec_stmt call, *)
(*           appended when it ends, and one "cond" entry per evaluation of  *)
(*           a while condition.                                             *)

CallEv(stmt, m0, m2, tcok, r, st) ==
    [ev |-> "call", depth |-> m0.depth, stmt |-> stmt, tc |-> tcok, ret |-> r,
     status |-> st,
     vars0 |-> m0.vars, types0 |-> m0.types, out0 |-> m0.out, launched0 |-> m0.launched,
     vars1 |-> m2.vars, types1 |-> m2.types, out1 |-> m2.out, launched1 |-> m2.launched]
CondEv(d, b) == [ev |-> "cond", depth |-> d, val |-> b]

\* exec_stmt returns r
Return(stmt, m0, m2, tcok, r) ==
    [m2 EXCEPT !.ret = r, !.depth = m0.depth,
               !.log = Append(@, CallEv(stmt, m0, m2, tcok, r, "ok"))]
\* exec_stmt does not return: the process panicked (st = "panic") or the
\* model stopped following a loop (st = "unfinished")
NoReturn(stmt, m0, m2, st) ==
    [m2 EXCEPT !.status = st, !.depth = m0.depth,
               !.log = Append(@, CallEv(stmt, m0, m2, TRUE, FALSE, st))]

RECURSIVE exec_stmt(_, _), exec_block(_, _), while_loop(_, _, _)

\* a block's end: `return true' if a statement signalled stop, else fall
\* through to the final `false'
EndBlock(stmt, m0, r) ==
    IF r.status # "ok" THEN NoReturn(stmt, m0, r, r.status)
    ELSE Return(stmt, m0, r, TRUE, r.ret)

\* mutant: an already bound name keeps its old value (entry().or_insert)
exec_VarDef_keep_first(stmt, m0, m1) ==
    LET x == eval_expr(stmt.e, m1) IN
    CASE x.k = "Panic" -> NoReturn(stmt, m0, m1, "panic")
      [] x.k = "Some"  ->
            IF stmt.n \in DOMAIN m1.vars THEN Return(stmt, m0, m1, TRUE, FALSE)
            ELSE Return(stmt, m0, [m1 EXCEPT !.vars = Insert(@, stmt.n, x.v)], TRUE, FALSE)
      [] x.k = "None"  -> Return(stmt, m0, m1, TRUE, FALSE)

exec_VarDef(stmt, m0, m1) ==
    LET x == eval_expr(stmt.e, m1) IN
    CASE x.k = "Panic" -> NoReturn(stmt, m0, m1, "panic")
      [] x.k = "Some"  -> Return(stmt, m0, [m1 EXCEPT !.vars = Insert(@, stmt.n, x.v)], TRUE, FALSE)
      [] x.k = "None"  -> Return(stmt, m0, m1, TRUE, FALSE)

\* mutant: arguments without a value are left out (filter_map instead of unwrap)
RECURSIVE eval_args_lenient(_, _)
eval_args_lenient(es, m) ==
    IF es = << >> THEN << >>
    ELSE LET x == eval_expr(Head(es), m) IN
         IF x.k # "Some" THEN eval_args_lenient(Tail(es), m)
         ELSE <<to_string(x.v)>> \o eval_args_lenient(Tail(es), m)

exec_Print_lenient(stmt, m0, m1) ==
    Return(stmt, m0, [m1 EXCEPT !.out = Append(@, join(eval_args_lenient(stmt.es, m1)))], TRUE, FALSE)

exec_Print(stmt, m0, m1) ==
    LET ss == eval_args(stmt.es, m1) IN
    IF ss = "panic" THEN NoReturn(stmt, m0, m1, "panic")
    ELSE Return(stmt, m0, [m1 EXCEPT !.out = Append(@, join(ss))], TRUE, FALSE)

\* mutant: no emptiness guard, so `&cmds[0]' is out of bounds on an empty argv
exec_Shell_unguarded(stmt, m0, m1) ==
    IF stmt.cmds = << >> THEN NoReturn(stmt, m0, m1, "panic")
    ELSE Return(stmt, m0, [m1 EXCEPT !.launched = Append(@, stmt.cmds)], TRUE, FALSE)

exec_Shell(stmt, m0, m1) ==
    IF stmt.cmds = << >> THEN Return(stmt, m0, m1, TRUE, FALSE)
    ELSE Return(stmt, m0, [m1 EXCEPT !.launched = Append(@, stmt.cmds)], TRUE, FALSE)

exec_If(stmt, m0, m1) ==
    LET c  == eval_expr(stmt.cond, m1)
        mb == [m1 EXCEPT !.depth = @ + 1]
    IN  IF c.k = "Panic" THEN NoReturn(stmt, m0, m1, "panic")
        ELSE IF c = Some(VBool(TRUE)) THEN EndBlock(stmt, m0, exec_block(stmt.t, mb))
        ELSE EndBlock(stmt, m0, exec_block(stmt.e, mb))

exec_While(stmt, m0, m1) == EndBlock(stmt, m0, while_loop(stmt, m1, MaxIter))

\* the `match stmt' of exec_stmt, on the Context m1 the type check left
exec_match(stmt, m0, m1) ==
    CASE stmt.kind = "VarDef"   -> exec_VarDef(stmt, m0, m1)
      [] stmt.kind = "Print"    -> exec_Print(stmt, m0, m1)
      [] stmt.kind = "Shell"    -> exec_Shell(stmt, m0, m1)
      [] stmt.kind = "SetShell" -> Return(stmt, m0, [m1 EXCEPT !.shell = stmt.sh], TRUE, FALSE)
      [] stmt.kind = "If"       -> exec_If(stmt, m0, m1)
      [] stmt.kind = "While"    -> exec_While(stmt, m0, m1)
      [] stmt.kind = "FuncDef"  -> Return(stmt, m0, m1, TRUE, FALSE)
      [] stmt.kind = "Exit"     -> Return(stmt, m0, m1, TRUE, TRUE)
      [] stmt.kind = "Clear"    -> Return(stmt, m0, [m1 EXCEPT !.out = Append(@, ClearSeq)], TRUE, FALSE)
      [] stmt.kind = "Help"     -> Return(stmt, m0, [m1 EXCEPT !.out = @ \o HelpText], TRUE, FALSE)
      [] stmt.kind = "ExprStmt" ->
             IF eval_expr(stmt.e, m1).k = "Panic" THEN NoReturn(stmt, m0, m1, "panic")
             ELSE Return(stmt, m0, m1, TRUE, FALSE)

\* mutant: the error is reported but the `return false' is missing, so the
\* statement is executed all the same
on_type_error_falls_through(stmt, m0, m1, e) ==
    exec_match(stmt, m0, [m1 EXCEPT !.err = Append(@, "Type error: " \o e)])

\* `eprintln!("Type error: {}",e); return false;'
on_type_error(stmt, m0, m1, e) ==
    Return(stmt, m0, [m1 EXCEPT !.err = Append(@, "Type error: " \o e)], FALSE, FALSE)

exec_stmt(stmt, m) ==
    LET tc == type_check_stmt(stmt, [types |-> m.types, funcs |-> m.funcs])
        m1 == [m EXCEPT !.types = tc.types, !.funcs = tc.funcs]
    IN  IF ~tc.ok THEN on_type_error(stmt, m, m1, tc.err)
        ELSE exec_match(stmt, m, m1)

\* `for s in t { if exec_stmt(s,ctx) { return true; } }': ret = TRUE when a
\* statement signalled stop, FALSE when the block ran to its end
exec_block(stmts, m) ==
    IF stmts = << >> THEN [m EXCEPT !.ret = FALSE]
    ELSE LET r == exec_stmt(Head(stmts), m) IN
         IF r.status # "ok" \/ r.ret THEN r ELSE exec_block(Tail(stmts), r)

\* mutant: a stop signalled in the body only leaves the `for' (break), and
\* the loop goes on
RECURSIVE while_loop_ignores_stop(_, _, _)
while_loop_ignores_stop(stmt, m, fuel) ==
    LET c == eval_expr(stmt.cond, m) IN
    IF c.k = "Panic" THEN [m EXCEPT !.status = "panic"]
    ELSE IF c = Some(VBool(TRUE)) THEN
        IF fuel = 0 THEN [m EXCEPT !.status = "unfinished"]
        ELSE LET mc == [m EXCEPT !.log = Append(@, CondEv(m.depth, TRUE)), !.depth = @ + 1]
                 r  == exec_block(stmt.body, mc)
                 r0 == [r EXCEPT !.depth = m.depth]
             IN  IF r.status # "ok" THEN r0 ELSE while_loop_ignores_stop(stmt, r0, fuel - 1)
    ELSE [m EXCEPT !.log = Append(@, CondEv(m.depth, FALSE)), !.ret = FALSE]

\* `while matches!(eval_expr(cond,ctx),Some(Value::Bool(true))) { for s in body ... }'
while_loop(stmt, m, fuel) ==
    LET c == eval_expr(stmt.cond, m) IN
    IF c.k = "Panic" THEN [m EXCEPT !.status = "panic"]
    ELSE IF c = Some(VBool(TRUE)) THEN
        IF fuel = 0 THEN [m EXCEPT !.status = "unfinished"]
        ELSE LET mc == [m EXCEPT !.log = Append(@, CondEv(m.depth, TRUE)), !.depth = @ + 1]
                 r  == exec_block(stmt.body, mc)
                 r0 == [r EXCEPT !.depth = m.depth]
             IN  IF r.status # "ok" \/ r.ret THEN r0 ELSE while_loop(stmt, r0, fuel - 1)
    ELSE [m EXCEPT !.log = Append(@, CondEv(m.depth, FALSE)), !.ret = FALSE]

-----------------------------------------------------------------------------
(* Text.  A &str is a TLA+ string; indices are the code's: 0-based, and a   *)
(* slice &s[a..b] holds the characters a .. b-1.                            *)

Min(S) == CHOOSE x \in S : \A y \in S : x <= y

Slice(s, a, b) == SubSeq(s, a + 1, b)
SliceFrom(s, a) == SubSeq(s, a + 1, Len(s))
\* &s[a..b] panics unless a <= b <= s.len()
SliceOk(s, a, b) == 0 <= a /\ a <= b /\ b <= Len(s)

starts_with(s, p) == Len(s) >= Len(p) /\ SubSeq(s, 1, Len(p)) = p
ends_with(s, p)   == Len(s) >= Len(p) /\ SubSeq(s, Len(s) - Len(p) + 1, Len(s)) = p

\* str::find: the index of the first occurrence, -1 for None
find(s, p) ==
    LET I == {i \in 0..(Len(s) - Len(p)) : SubSeq(s, i + 1, i + Len(p)) = p}
    IN  IF I = {} THEN -1 ELSE Min(I)

contains(s, p) == find(s, p) # -1

IsSpace(c) == c \in {" ", "\t"}

RECURSIVE trim_start(_)
trim_start(s) == IF Len(s) > 0 /\ IsSpace(SubSeq(s, 1, 1)) THEN trim_start(SliceFrom(s, 1)) ELSE s
RECURSIVE trim_end(_)
trim_end(s) == IF Len(s) > 0 /\ IsSpace(SubSeq(s, Len(s), Len(s)))
               THEN trim_end(Slice(s, 0, Len(s) - 1)) ELSE s
trim(s) == trim_end(trim_start(s))

\* str::split(ch): the pieces between the occurrences of ch (one piece if none)
RECURSIVE split(_, _)
split(s, ch) ==
    LET i == find(s, ch) IN
    IF i = -1 THEN <<s>> ELSE <<Slice(s, 0, i)>> \o split(SliceFrom(s, i + 1), ch)

\* str::split_once(ch)
split_once(s, ch) ==
    LET i == find(s, ch) IN
    IF i = -1 THEN [some |-> FALSE]
    ELSE [some |-> TRUE, l |-> Slice(s, 0, i), r |-> SliceFrom(s, i + 1)]

\* str::strip_prefix
strip_prefix(s, p) ==
    IF starts_with(s, p) THEN [some |-> TRUE, rest |-> SliceFrom(s, Len(p))]
    ELSE [some |-> FALSE]

UpperCase == "ABCDEFGHIJKLMNOPQRSTUVWXYZ"
LowerCase == "abcdefghijklmnopqrstuvwxyz"

RECURSIVE to_lowercase(_)
to_lowercase(s) ==
    IF Len(s) = 0 THEN ""
    ELSE LET c == SubSeq(s, 1, 1)
             i == find(UpperCase, c)
         IN  (IF i = -1 THEN c ELSE SubSeq(LowerCase, i + 1, i + 1)) \o to_lowercase(SliceFrom(s, 1))

DigitChars == "0123456789"
IsDigits(s) == Len(s) > 0 /\ \A i \in 1..Len(s) : contains(DigitChars, SubSeq(s, i, i))

RECURSIVE NatOf(_)
NatOf(s) == IF Len(s) = 0 THEN 0
            ELSE NatOf(Slice(s, 0, Len(s) - 1)) * 10 + find(DigitChars, SubSeq(s, Len(s), Len(s)))

HasSign(s) == Len(s) > 0 /\ SubSeq(s, 1, 1) \in {"+", "-"}
Unsigned(s) == IF HasSign(s) THEN SliceFrom(s, 1) ELSE s
Signed(s, n) == IF starts_with(s, "-") THEN -n ELSE n

\* s.parse::<i64>(): an optional sign and digits, in the integers' range
parse_i64(s) ==
    IF IsDigits(Unsigned(s)) /\ InRange(Signed(s, NatOf(Unsigned(s))))
    THEN [ok |-> TRUE, val |-> Signed(s, NatOf(Unsigned(s)))]
    ELSE [ok |-> FALSE]

RECURSIVE StripZeros(_)
StripZeros(s) == IF ends_with(s, "0") THEN StripZeros(Slice(s, 0, Len(s) - 1)) ELSE s

\* s.parse::<f64>() for the decimal forms [sign] digits . digits (the texts
\* the model parses hold no exponent), the value counted in halves; a
\* fraction that is no multiple of one half has no such count and is kept
\* opaque
parse_f64(s) ==
    LET u    == Unsigned(s)
        dot  == find(u, ".")
        ip   == Slice(u, 0, dot)
        fp   == SliceFrom(u, dot + 1)
        frac == StripZeros(fp)
    IN  IF /\ dot # -1
           /\ (Len(ip) = 0 \/ IsDigits(ip))
           /\ (Len(fp) = 0 \/ IsDigits(fp))
           /\ Len(ip) + Len(fp) > 0
        THEN [ok |-> TRUE,
              val |-> IF frac \in {"", "5"}
                      THEN Signed(s, 2 * NatOf(ip) + (IF frac = "5" THEN 1 ELSE 0))
                      ELSE "fraction"]
        ELSE [ok |-> FALSE]

-----------------------------------------------------------------------------
(* Tokenizer and parser.  A panic while parsing (an unwrap of None, a slice *)
(* out of range) is the node Panicked in the tree that was being built.     *)

Panicked == [kind |-> "Panicked"]

\* tokenize: cur, in_str and toks after the characters from i on
RECURSIVE tokenize_from(_, _, _, _, _)
tokenize_from(s, i, cur, in_str, toks) ==
    IF i > Len(s) THEN (IF cur # "" THEN Append(toks, cur) ELSE toks)
    ELSE LET c == SubSeq(s, i, i) IN
         IF c = "\"" THEN tokenize_from(s, i + 1, cur \o c, ~in_str, toks)
         ELSE IF c = " " /\ ~in_str
              THEN tokenize_from(s, i + 1, "", in_str, IF cur # "" THEN Append(toks, cur) ELSE toks)
         ELSE tokenize_from(s, i + 1, cur \o c, in_str, toks)

tokenize(s) == tokenize_from(s, 1, "", FALSE, << >>)

RECURSIVE parse_type(_)
parse_type(s) ==
    LET t == to_lowercase(s) IN
    CASE t = "int"   -> TInt
      [] t = "float" -> TFloat
      [] t = "bool"  -> TBool
      [] t \in {"str", "string"} -> TStr
      [] t \notin {"int", "float", "bool", "str", "string"}
         /\ starts_with(t, "list<") /\ ends_with(t, ">") ->
             TList(parse_type(Slice(t, 5, Len(t) - 1)))
      [] OTHER -> TVoid

RECURSIVE parse_expr(_)
parse_expr(s0) ==
    LET s     == trim(s0)
        plus  == find(s, "+")
        paren == find(s, "(")
        args  == Slice(s, paren + 1, Len(s) - 1)
    IN  IF starts_with(s, "\"") /\ ends_with(s, "\"")
        THEN (IF SliceOk(s, 1, Len(s) - 1) THEN Literal(VStr(Slice(s, 1, Len(s) - 1)))
              ELSE Panicked)
        ELSE IF s = "true"  THEN Literal(VBool(TRUE))
        ELSE IF s = "false" THEN Literal(VBool(FALSE))
        ELSE IF contains(s, ".") /\ parse_f64(s).ok THEN Literal(VFloat(parse_f64(s).val))
        ELSE IF parse_i64(s).ok THEN Literal(VInt(parse_i64(s).val))
        ELSE IF plus # -1
        THEN BinOp(parse_expr(Slice(s, 0, plus)), "+", parse_expr(SliceFrom(s, plus + 1)))
        ELSE IF paren # -1
        THEN (IF ~SliceOk(s, paren + 1, Len(s) - 1) THEN Panicked
              ELSE Call(Slice(s, 0, paren),
                        IF args = "" THEN << >>
                        ELSE [i \in 1..Len(split(args, ",")) |-> parse_expr(split(args, ",")[i])]))
        ELSE Var(s)

\* `inside.split(',').map(|a| parse_expr(a.trim())).collect()'
parse_args(inside) == [i \in 1..Len(split(inside, ",")) |-> parse_expr(split(inside, ",")[i])]

\* `for p in parts { let (n,t)=p.split_once(':').unwrap(); params.push((n.into(), parse_type(t))); }'
parse_param(p) ==
    IF split_once(p, ":").some THEN <<split_once(p, ":").l, parse_type(split_once(p, ":").r)>>
    ELSE <<Panicked>>

NonEmpty(s) == s # ""

RECURSIVE parse_stmt(_), scan_block(_, _, _, _)

\* `while idx<lines.len() { let t=lines[idx].trim(); if <t is a terminator> { break }
\*    body.push(parse_stmt(&lines[idx..]).0); idx+=1; }'
scan_block(lines, idx, stops, body) ==
    IF idx < Len(lines) /\ trim(lines[idx + 1]) \notin stops
    THEN scan_block(lines, idx + 1, stops,
                    Append(body, parse_stmt(SubSeq(lines, idx + 1, Len(lines))).stmt))
    ELSE [body |-> body, idx |-> idx]

parse_var(line) ==
    LET rest == strip_prefix(line, "var ").rest
        eq   == split_once(rest, "=")
        left == trim(eq.l)
        col  == split_once(left, ":")
    IN  VarDef(trim(col.l), parse_type(trim(col.r)), parse_expr(trim(eq.r)))

\* whether the `var' rule applies: its three `if let Some' succeed
is_var(line) ==
    /\ strip_prefix(line, "var ").some
    /\ split_once(strip_prefix(line, "var ").rest, "=").some
    /\ split_once(trim(split_once(strip_prefix(line, "var ").rest, "=").l), ":").some

parse_print(line) ==
    LET r == strip_prefix(line, "print").rest
        i == find(r, "(")
    IN  IF i # -1
        THEN (IF SliceOk(r, i + 1, Len(r) - 1)
              THEN PrintStmt(parse_args(Slice(r, i + 1, Len(r) - 1)))
              ELSE Panicked)
        ELSE PrintStmt(parse_args(trim(r)))

parse_if(lines) ==
    LET line == lines[1]
        th   == find(line, "then")
        t    == scan_block(lines, 1, {"else", "end"}, << >>)
        e    == IF t.idx < Len(lines) /\ trim(lines[t.idx + 1]) = "else"
                THEN scan_block(lines, t.idx + 1, {"end"}, << >>)
                ELSE [body |-> << >>, idx |-> t.idx]
    IN  IF th = -1 THEN [stmt |-> Panicked, cons |-> 1]
        ELSE [stmt |-> If(parse_expr(trim(Slice(line, 3, th))), t.body, e.body),
              cons |-> e.idx + 1]

parse_while(lines) ==
    LET line == lines[1]
        d    == find(line, "do")
        b    == scan_block(lines, 1, {"end"}, << >>)
    IN  IF d = -1 THEN [stmt |-> Panicked, cons |-> 1]
        ELSE [stmt |-> While(parse_expr(trim(Slice(line, 6, d))), b.body),
              cons |-> b.idx + 1]

parse_fn(lines) ==
    LET after  == SliceFrom(lines[1], 3)
        open   == find(after, "(")
        close  == find(after, ")")
        rest   == Slice(after, open + 1, close)
        pieces == split(rest, ",")
        parts  == SelectSeq([i \in 1..Len(pieces) |-> trim(pieces[i])], NonEmpty)
        rp     == find(after, ")->")
        ret_ty == IF rp # -1 THEN parse_type(trim(SliceFrom(after, rp + 3))) ELSE TVoid
        b      == scan_block(lines, 1, {"end"}, << >>)
    IN  IF open = -1 \/ close = -1 \/ ~SliceOk(after, open + 1, close)
        THEN [stmt |-> Panicked, cons |-> 1]
        ELSE [stmt |-> FuncDef(Slice(after, 0, open),
                               [i \in 1..Len(parts) |-> parse_param(parts[i])],
                               ret_ty, b.body),
              cons |-> b.idx + 1]

parse_stmt(lines) ==
    LET line == lines[1] IN
    CASE line \in {"exit", "quit"} -> [stmt |-> Exit, cons |-> 1]
      [] line = "clear" -> [stmt |-> Clear, cons |-> 1]
      [] line = "help"  -> [stmt |-> Help, cons |-> 1]
      [] OTHER ->
         IF strip_prefix(line, "setshell ").some
         THEN [stmt |-> SetShell(strip_prefix(line, "setshell ").rest), cons |-> 1]
         ELSE IF is_var(line) THEN [stmt |-> parse_var(line), cons |-> 1]
         ELSE IF strip_prefix(line, "print").some THEN [stmt |-> parse_print(line), cons |-> 1]
         ELSE IF strip_prefix(line, "shell ").some
         THEN [stmt |-> Shell(tokenize(strip_prefix(line, "shell ").rest)), cons |-> 1]
         ELSE IF starts_with(line, "if ")    THEN parse_if(lines)
         ELSE IF starts_with(line, "while ") THEN parse_while(lines)
         ELSE IF starts_with(line, "fn ")    THEN parse_fn(lines)
         ELSE [stmt |-> ExprStmt(parse_expr(line)), cons |-> 1]

\* the lines parse_program keeps: trimmed, not empty, not a comment
kept_line(l) == l # "" /\ ~starts_with(l, "#")
program_lines(text) == SelectSeq([i \in 1..Len(text) |-> trim(text[i])], kept_line)

\* `while i < lines.len() { let (stmt, cons) = parse_stmt(&lines[i..]); stmts.push(stmt); i += cons; }'
RECURSIVE parse_from(_, _, _)
parse_from(lines, i, stmts) ==
    IF i < Len(lines)
    THEN LET r == parse_stmt(SubSeq(lines, i + 1, Len(lines)))
         IN  parse_from(lines, i + r.cons, Append(stmts, r.stmt))
    ELSE stmts

parse_program(text) == parse_from(program_lines(text), 0, << >>)

\* whether a panic happened while the tree was built
RECURSIVE expr_panicked(_)
expr_panicked(e) ==
    CASE e.kind = "Panicked" -> TRUE
      [] e.kind = "BinOp" -> expr_panicked(e.a) \/ expr_panicked(e.b)
      [] e.kind = "Call"  -> \E i \in 1..Len(e.args) : expr_panicked(e.args[i])
      [] OTHER -> FALSE

RECURSIVE stmt_panicked(_)
stmt_panicked(s) ==
    CASE s.kind = "Panicked" -> TRUE
      [] s.kind \in {"VarDef", "ExprStmt"} -> expr_panicked(s.e)
      [] s.kind = "Print" -> \E i \in 1..Len(s.es) : expr_panicked(s.es[i])
      [] s.kind = "If" -> \/ expr_panicked(s.cond)
                          \/ \E i \in 1..Len(s.t) : stmt_panicked(s.t[i])
                          \/ \E i \in 1..Len(s.e) : stmt_panicked(s.e[i])
      [] s.kind = "While" -> \/ expr_panicked(s.cond)
                             \/ \E i \in 1..Len(s.body) : stmt_panicked(s.body[i])
      [] s.kind = "FuncDef" -> \/ \E i \in 1..Len(s.params) : Len(s.params[i]) = 1
                               \/ \E i \in 1..Len(s.body) : stmt_panicked(s.body[i])
      [] OTHER -> FALSE

-----------------------------------------------------------------------------
(* The driver: Context::new, and the loop of run_script and repl around     *)
(* exec_stmt.                                                               *)

NoStmt == [kind |-> "None"]

\* the interpreter's state as exec_stmt receives it
Machine ==
    [vars |-> vars, types |-> types, funcs |-> funcs, shell |-> shell,
     out |-> out, err |-> err, launched |-> launched, oc |-> overflow_checks,
     status |-> "ok", ret |-> FALSE, depth |-> 0, log |-> << >>]

\* Context::new, before any statement
InitContext ==
    /\ vars = EmptyMap
    /\ types = EmptyMap
    /\ funcs = EmptyMap
    /\ shell = "/bin/sh"
    /\ out = << >>
    /\ err = << >>
    /\ launched = << >>
    /\ overflow_checks \in BOOLEAN
    /\ steps = 0
    /\ last = [stmt |-> NoStmt, pre |-> [vars |-> EmptyMap, types |-> EmptyMap,
                                         funcs |-> EmptyMap, shell |-> "/bin/sh",
                                         out |-> << >>, launched |-> << >>,
                                         err |-> << >>],
               log |-> << >>, ret |-> FALSE, status |-> "ok"]

\* what the loop does with exec_stmt's outcome: `if exec_stmt(stmt,ctx) { break; }'
AfterExec(m) ==
    CASE m.status = "panic"      -> "panicked"
      [] m.status = "unfinished" -> "looping"
      [] m.status = "ok" /\ m.ret  -> "stopped"
      [] m.status = "ok" /\ ~m.ret -> "run"

Snapshot(m) ==
    [vars |-> m.vars, types |-> m.types, funcs |-> m.funcs, shell |-> m.shell,
     out |-> m.out, launched |-> m.launched, err |-> m.err]

\* the state after exec_stmt(stmt, ctx) took the Context from pre to m
Commit(stmt, pre, m, ph, n) ==
    /\ vars' = m.vars
    /\ types' = m.types
    /\ funcs' = m.funcs
    /\ shell' = m.shell
    /\ out' = m.out
    /\ err' = m.err
    /\ launched' = m.launched
    /\ phase' = ph
    /\ steps' = steps + n
    /\ last' = [stmt |-> stmt, pre |-> pre, log |-> m.log, ret |-> m.ret, status |-> m.status]
    /\ UNCHANGED overflow_checks

\* one iteration of the loop: exec_stmt(stmt, ctx) on the current Context
Drive(stmt) ==
    \E m \in {exec_stmt(stmt, Machine)} :
        Commit(stmt, Snapshot(Machine), m, AfterExec(m), 1)

-----------------------------------------------------------------------------
(* Statements given to exec_stmt directly: the first statement that         *)
(* parse_program yields for each of these texts, and Shell with an empty    *)
(* argv, which exec_stmt handles and no source line yields.                 *)

LInt(i)  == Literal(VInt(i))
LStr(s)  == Literal(VStr(s))
LBool(b) == Literal(VBool(b))

LoopTwiceText == <<"while b do", "var b:bool = c", "var c:bool = false", "end">>
LoopTwice == parse_program(LoopTwiceText)[1]

PoolTexts ==
    { <<"var x:int = 1">>,
      <<"var x:int = x + 5">>,
      <<"var y:int = x">>,
      <<"var x:str = \"s\"">>,
      <<"var y:int = \"hi\"">>,
      <<"var y:bool = true + false">>,
      <<"var y:int = p">>,
      <<"var b:bool = true">>,
      <<"var c:bool = true">>,
      <<"print(y)">>,
      <<"print(true + false)">>,
      <<"print(x, \"yes\")">>,
      <<"if true then", "var y:int = x", "else", "var x:str = \"s\"", "end">>,
      <<"if b then", "print(\"yes\")", "else", "print(\"no\")", "exit", "end">>,
      LoopTwiceText,
      <<"while b do", "print(\"in\")", "end">>,
      <<"if true then", "while b do", "print(\"in\")", "exit", "print(\"never\")", "end">>,
      <<"fn f(p:int)->int", "var q:int = p", "end">>,
      <<"fn g(p:int)", "h()", "end">>,
      <<"exit">>,
      <<"shell ls -l">>,
      <<"setshell /bin/bash">>,
      <<"clear">>,
      <<"help">>,
      <<"x">> }

StmtPool == {parse_program(t)[1] : t \in PoolTexts} \cup {Shell(<< >>)}

InitExec ==
    /\ mode = "ast"
    /\ phase = "run"
    /\ src = << >>
    /\ prog = << >>
    /\ pc = 1
    /\ InitContext

ExecAny ==
    /\ mode = "ast"
    /\ phase = "run"
    /\ steps < MaxSteps
    /\ \E stmt \in StmtPool : Drive(stmt)
    /\ UNCHANGED <<mode, src, prog, pc>>

NextExec == ExecAny

SpecExec == InitExec /\ [][NextExec]_varsAll

-----------------------------------------------------------------------------
(* main: run_script on a script file, or repl on the lines typed *)

IfOneLine == "if true then print(\"yes\") else print(\"no\") end"

NestedText == <<"while b do", "if b then", "print(1)", "end", "print(2)", "end">>

\* scripts written out, among them the spec's scenarios
GivenScripts ==
    { <<IfOneLine>>,
      NestedText,
      <<"var x:int = 2 + 3", "print(x)">>,
      <<"var f:float = 1.5 + 2.5", "print(f)">>,
      <<"var i:int = 0", "while i + 1 do", "print(i)", "end">>,
      <<"var y:int = \"hi\"", "print(1)">>,
      <<"# nested", "var b:bool = true", "", "if b then", "  while b do", "  var b:bool = false",
        "  end", "else", "  print(0)", "end", "print(b)">>,
      <<"var x:int = 1", "if true then", "var y:int = x", "else", "var x:str = \"s\"", "end", "print(y)">>,
      <<"fn f(p:int)->int", "if true then", "end", "end", "help", "clear", "setshell /bin/bash", "shell ls">>,
      <<"print(">>,
      <<"if b">> }

LinePool == {"while b do", "if b then", "else", "end", "var b:bool = true", "print(b)", "exit"}

\* the lines of a script of the exhaustive part: at most this many
MaxLines == 4

RECURSIVE SeqsUpTo(_, _)
SeqsUpTo(S, n) ==
    IF n = 0 THEN {<< >>}
    ELSE LET shorter == SeqsUpTo(S, n - 1)
         IN  shorter \cup {Append(t, l) : t \in {u \in shorter : Len(u) = n - 1}, l \in S}

Scripts == GivenScripts \cup SeqsUpTo(LinePool, MaxLines)

\* fs::read_to_string failed
NoFile == <<"<unreadable>">>

ReplInputs ==
    { IfOneLine,
      "var x:int = 2 + 3",
      "print(x)",
      "var x:int = 1; print(x); exit; print(x)",
      " ; ;",
      "f(",
      "exit" }

Init ==
    /\ mode \in {"script", "repl"}
    /\ \/ mode = "script" /\ phase = "read" /\ src \in Scripts \cup {NoFile}
       \/ mode = "repl" /\ phase = "run" /\ src = << >>
    /\ prog = << >>
    /\ pc = 1
    /\ InitContext

\* run_script: `Err(_) => eprintln!("Cannot open file: {}",path)'
ReadFails ==
    /\ mode = "script"
    /\ phase = "read"
    /\ src = NoFile
    /\ phase' = "done"
    /\ err' = Append(err, "Cannot open file")
    /\ UNCHANGED <<mode, src, prog, pc, vars, types, funcs, shell, out, launched,
                   overflow_checks, steps, last>>

\* run_script: `Ok(src) => for stmt in &parse_program(&src)', the parse, which
\* is complete before the first statement runs
ParseProgram ==
    /\ mode = "script"
    /\ phase = "read"
    /\ src # NoFile
    /\ \E p \in {parse_program(src)} :
          IF \E i \in 1..Len(p) : stmt_panicked(p[i])
          THEN phase' = "panicked" /\ prog' = << >>
          ELSE phase' = "run" /\ prog' = p
    /\ UNCHANGED <<mode, src, pc, vars, types, funcs, shell, out, err, launched,
                   overflow_checks, steps, last>>

\* run_script: one iteration of `for stmt in .. { if exec_stmt(stmt,ctx) { break; } }'
RunStmt ==
    /\ mode = "script"
    /\ phase = "run"
    /\ pc <= Len(prog)
    /\ Drive(prog[pc])
    /\ pc' = pc + 1
    /\ UNCHANGED <<mode, src, prog>>

\* run_script: the `for' is exhausted
Finish ==
    /\ mode = "script"
    /\ phase = "run"
    /\ pc > Len(prog)
    /\ phase' = "done"
    /\ UNCHANGED <<mode, src, prog, pc, vars, types, funcs, shell, out, err, launched,
                   overflow_checks, steps, last>>

\* repl: `for part in line.trim().split(';') { if part.trim().is_empty() { continue; }
\*   let (stmt,_) = parse_stmt(&[part.trim()]); if exec_stmt(&stmt,ctx) { return; } }'
\* acc: the Context m, the last statement executed with the Context before it,
\* the number n of exec_stmt calls, and what became of the loop
RECURSIVE repl_parts(_, _)
repl_parts(parts, acc) ==
    IF parts = << >> \/ acc.halt # "run" THEN acc
    ELSE IF trim(Head(parts)) = "" THEN repl_parts(Tail(parts), acc)
    ELSE LET stmt == parse_stmt(<<trim(Head(parts))>>).stmt
             m0   == [acc.m EXCEPT !.log = << >>, !.ret = FALSE]
             m    == exec_stmt(stmt, m0)
         IN  IF stmt_panicked(stmt) THEN [acc EXCEPT !.halt = "panicked"]
             ELSE repl_parts(Tail(parts),
                             [m |-> m, stmt |-> stmt, pre |-> Snapshot(m0),
                              n |-> acc.n + 1, halt |-> AfterExec(m)])

\* repl: one line read and run
ReplLine ==
    /\ mode = "repl"
    /\ phase = "run"
    /\ steps < MaxSteps
    /\ \E line \in ReplInputs :
         /\ src' = <<line>>
         /\ \E acc \in {repl_parts(split(trim(line), ";"),
                                   [m |-> Machine, stmt |-> NoStmt, pre |-> Snapshot(Machine),
                                    n |-> 0, halt |-> "run"])} :
               Commit(acc.stmt, acc.pre, acc.m, acc.halt, acc.n)
    /\ UNCHANGED <<mode, prog, pc>>

Next == ReadFails \/ ParseProgram \/ RunStmt \/ Finish \/ ReplLine

Spec == Init /\ [][Next]_varsAll

-----------------------------------------------------------------------------
(* Reading the history of the last top-level exec_stmt call *)

Log == last.log
CallIdx == {i \in 1..Len(Log) : Log[i].ev = "call"}

\* the Context the last top-level call started from
PreMachine ==
    [vars |-> last.pre.vars, types |-> last.pre.types, funcs |-> last.pre.funcs,
     shell |-> last.pre.shell, out |-> last.pre.out, err |-> last.pre.err,
     launched |-> last.pre.launched, oc |-> overflow_checks,
     status |-> "ok", ret |-> FALSE, depth |-> 0, log |-> << >>]

\* eval_expr on the value environment vs
EvalIn(e, vs) == eval_expr(e, [vars |-> vs, oc |-> overflow_checks])

\* the entry of the top-level call itself closes the log
TopIsLast ==
    last.stmt # NoStmt =>
        /\ Len(Log) > 0
        /\ Log[Len(Log)].ev = "call"
        /\ Log[Len(Log)].depth = 0
        /\ Log[Len(Log)].stmt = last.stmt
        /\ Log[Len(Log)].vars1 = vars
        /\ Log[Len(Log)].types1 = types
        /\ Log[Len(Log)].out1 = out

-----------------------------------------------------------------------------
\* C1: every VarDef(name, T, expr) run by exec_stmt, at top level or nested,
\* whose expr type-checks to T and evaluates to a value v of type T, leaves
\* vars[name] = v and types[name] = T and returns "do not stop" (the driver
\* stays running after a top-level one).
C1_VarDefBinds ==
    /\ TopIsLast
    /\ \A i \in CallIdx :
         LET c == Log[i]
             x == EvalIn(c.stmt.e, c.vars0)
         IN  ( /\ c.stmt.kind = "VarDef"
               /\ type_check_expr(c.stmt.e, c.types0) = TcOk(c.stmt.ty)
               /\ x.k = "Some"
               /\ get_type(x.v) = c.stmt.ty )
             => /\ c.status = "ok"
                /\ c.tc
                /\ ~c.ret
                /\ c.stmt.n \in DOMAIN c.vars1
                /\ c.vars1[c.stmt.n] = x.v
                /\ c.stmt.n \in DOMAIN c.types1
                /\ c.types1[c.stmt.n] = c.stmt.ty
                /\ (c.depth = 0 => phase = "run")

\* a well-typed top-level VarDef has just bound a name that was unbound before
C1_Witness ==
    /\ last.stmt.kind = "VarDef"
    /\ type_check_expr(last.stmt.e, last.pre.types) = TcOk(last.stmt.ty)
    /\ EvalIn(last.stmt.e, last.pre.vars).k = "Some"
    /\ get_type(EvalIn(last.stmt.e, last.pre.vars).v) = last.stmt.ty
    /\ last.stmt.e.kind = "BinOp"
    /\ last.stmt.n \in DOMAIN vars
    /\ vars # last.pre.vars

-----------------------------------------------------------------------------
\* C2: a statement whose type check fails is not executed: exec_stmt returns
\* "do not stop", vars, output and launched commands are as before (so
\* VarDef(y, Int, Literal(Str "hi")) leaves y unbound), and after a top-level
\* one the driver is still running, ready for the next statement.
C2_TypeErrorSkips ==
    /\ TopIsLast
    /\ \A i \in CallIdx :
         LET c == Log[i] IN
         ~type_check_stmt(c.stmt, [types |-> c.types0, funcs |-> << >>]).ok
         => /\ ~c.tc
            /\ c.status = "ok"
            /\ ~c.ret
            /\ c.vars1 = c.vars0
            /\ c.out1 = c.out0
            /\ c.launched1 = c.launched0
            /\ (c.depth = 0 => phase = "run" /\ Len(err) = Len(last.pre.err) + 1)

\* the spec's example has just been rejected on a Context where y is unbound
C2_Witness ==
    /\ last.stmt = VarDef("y", TInt, LStr("hi"))
    /\ "x" \in DOMAIN vars
    /\ "y" \notin DOMAIN vars
    /\ phase = "run"
    /\ Len(err) = 1

-----------------------------------------------------------------------------
\* C3 (as claimed): a type-correct If(cond, A, B) whose cond evaluates to
\* Bool(true) has exactly the runtime effects (vars, output, launched
\* commands, stop signal) of executing A's statements in order from the
\* Context the If was run on, and those of B otherwise.
C3_IfIsTakenBranch ==
    ( /\ last.stmt.kind = "If"
      /\ last.status = "ok"
      /\ type_check_stmt(last.stmt, [types |-> last.pre.types, funcs |-> last.pre.funcs]).ok )
    => LET taken == IF EvalIn(last.stmt.cond, last.pre.vars) = Some(VBool(TRUE))
                    THEN last.stmt.t ELSE last.stmt.e
           ref   == exec_block(taken, PreMachine)
       IN  /\ ref.status = "ok"
           /\ vars = ref.vars
           /\ out = ref.out
           /\ launched = ref.launched
           /\ last.ret = ref.ret

-----------------------------------------------------------------------------
(* C4: the entries of one While call in the log.  A call's entries lie      *)
(* after the previous call entry of its own or a lower depth; its condition *)
(* evaluations carry its depth and its body statements' calls its depth + 1.*)

Max(S) == CHOOSE x \in S : \A y \in S : y <= x

Segment(j) ==
    LET d      == Log[j].depth
        before == {i \in 1..(j - 1) : Log[i].ev = "call" /\ Log[i].depth <= d}
        s      == IF before = {} THEN 0 ELSE Max(before)
    IN  SubSeq(Log, s + 1, j - 1)

CondsOf(j) ==
    LET IsCond(e) == e.ev = "cond" /\ e.depth = Log[j].depth
    IN  SelectSeq(Segment(j), IsCond)

BodyCallsOf(j) ==
    LET IsBody(e) == e.ev = "call" /\ e.depth = Log[j].depth + 1
    IN  SelectSeq(Segment(j), IsBody)

\* body repeated k times
RECURSIVE Repeat(_, _)
Repeat(body, k) == IF k = 0 THEN << >> ELSE body \o Repeat(body, k - 1)

StmtsOf(calls) == [i \in 1..Len(calls) |-> calls[i].stmt]
TrueCount(conds) == Cardinality({i \in 1..Len(conds) : conds[i].val})

C4_WitnessStop ==
    /\ last.stmt.kind = "If"
    /\ last.ret
    /\ phase = "stopped"
    /\ \E j \in CallIdx : Log[j].stmt.kind = "While" /\ Log[j].ret /\ Log[j].depth = 1
    /\ out = <<"in">>

-----------------------------------------------------------------------------
\* C7 (as claimed): whenever the check of a FuncDef returns, also when a body
\* statement failed to type-check, types equals the snapshot taken before the
\* parameters were installed; on success funcs[name] holds the signature and
\* the body.
C7_FuncDefRestoresTypes ==
    \A i \in CallIdx :
        LET c == Log[i] IN
        c.stmt.kind = "FuncDef" =>
            /\ c.types1 = c.types0
            /\ (c.depth = 0 => types = last.pre.types)
            /\ (c.depth = 0 /\ c.tc) =>
                   /\ c.stmt.n \in DOMAIN funcs
                   /\ funcs[c.stmt.n] = [params |-> c.stmt.params, ret |-> c.stmt.ret,
                                         body |-> c.stmt.body]

-----------------------------------------------------------------------------
\* some argument of the Print has no value in the value environment vs
RECURSIVE SomeArgHasNoValue(_, _)
SomeArgHasNoValue(es, vs) ==
    /\ es # << >>
    /\ \/ EvalIn(Head(es), vs).k = "None"
       \/ (EvalIn(Head(es), vs).k = "Some" /\ SomeArgHasNoValue(Tail(es), vs))

\* C8: a Print that passes type checking and has an argument evaluating to no
\* value kills the run: the call does not return, no output line is written,
\* every later log entry is an enclosing statement dying with it, and after
\* it the driver has panicked and executes nothing more.
C8_PrintNoValuePanics ==
    /\ TopIsLast
    /\ \A i \in CallIdx :
         LET c == Log[i] IN
         ( /\ c.stmt.kind = "Print"
           /\ type_check_exprs(c.stmt.es, c.types0).ok
           /\ SomeArgHasNoValue(c.stmt.es, c.vars0) )
         => /\ c.status = "panic"
            /\ c.out1 = c.out0
            /\ c.vars1 = c.vars0
            /\ \A j \in (i + 1)..Len(Log) :
                   Log[j].ev = "call" /\ Log[j].status = "panic" /\ Log[j].depth < c.depth
            /\ last.status = "panic"
            /\ out = last.pre.out
    /\ (last.status = "panic" => phase = "panicked" /\ ~ENABLED NextExec)

\* print(y) has just killed the run: y is typed (its VarDef passed the check)
\* but has no value (its initialiser, a `+' of two Bool, evaluated to nothing)
C8_Witness ==
    /\ phase = "panicked"
    /\ last.stmt = PrintStmt(<<Var("y")>>)
    /\ "y" \in DOMAIN last.pre.types
    /\ "y" \notin DOMAIN last.pre.vars
    /\ out = << >>

\* print(true + false) has just killed the run
C8_WitnessBinop ==
    /\ phase = "panicked"
    /\ last.stmt = PrintStmt(<<BinOp(LBool(TRUE), "+", LBool(FALSE))>>)
    /\ type_check_stmt(last.stmt, [types |-> last.pre.types, funcs |-> << >>]).ok

-----------------------------------------------------------------------------
\* C9 (as claimed): exec_stmt on Shell with an empty argv returns "stop" and
\* launches no command.
C9_EmptyShellStops ==
    \A i \in CallIdx :
        LET c == Log[i] IN
        (c.stmt.kind = "Shell" /\ c.stmt.cmds = << >>)
        => c.ret /\ c.launched1 = c.launched0

\* C9 (amended): exec_stmt on Shell with an empty argv returns "do not stop"
\* (the driver goes on) and launches no command.
C9_EmptyShellSkips ==
    /\ TopIsLast
    /\ \A i \in CallIdx :
        LET c == Log[i] IN
        (c.stmt.kind = "Shell" /\ c.stmt.cmds = << >>)
        => /\ c.status = "ok"
           /\ ~c.ret
           /\ c.launched1 = c.launched0
           /\ (c.depth = 0 => phase = "run" /\ launched = last.pre.launched)

\* Shell(<<>>) has just run after a command was launched
C9_Witness ==
    /\ last.stmt = Shell(<< >>)
    /\ Len(launched) = 1
    /\ phase = "run"

-----------------------------------------------------------------------------
\* C10: every name bound in vars has an entry in types, in every state of a
\* run and at the end of every exec_stmt call, nested calls included.
C10_VarsAreTyped ==
    /\ DOMAIN vars \subseteq DOMAIN types
    /\ \A i \in CallIdx : DOMAIN Log[i].vars1 \subseteq DOMAIN Log[i].types1

\* a FuncDef has just passed its check, restoring types, with a name bound
C10_Witness ==
    /\ last.stmt.kind = "FuncDef"
    /\ Log[Len(Log)].tc
    /\ "x" \in DOMAIN vars
    /\ "q" \notin DOMAIN types

-----------------------------------------------------------------------------
\* the Context of Context::new, untouched
FreshSnapshot ==
    [vars |-> EmptyMap, types |-> EmptyMap, funcs |-> EmptyMap, shell |-> "/bin/sh",
     out |-> << >>, launched |-> << >>, err |-> << >>]

\* C5 (as claimed): the single line `if true then print("yes") else
\* print("no") end', parsed by parse_stmt and executed by exec_stmt on a fresh
\* Context (typed at the prompt, or as a one-line script), writes exactly one
\* output line, yes.
C5_OneLineIfPrintsYes ==
    ( /\ src = <<IfOneLine>>
      /\ last.stmt # NoStmt
      /\ last.pre = FreshSnapshot
      /\ steps = 1 )
    => out = <<"yes">>

-----------------------------------------------------------------------------
(* C6: the block structure of the lines parse_program keeps, read off the   *)
(* text alone.                                                              *)

IsHeader(l) == starts_with(l, "if ") \/ starts_with(l, "while ") \/ starts_with(l, "fn ")
IsSimple(l) == ~IsHeader(l) /\ l \notin {"else", "end"}

\* the open blocks after the lines from i on, or <<"bad">> for an `else' or
\* `end' that closes nothing; deepest is the maximal nesting met
RECURSIVE Nesting(_, _, _, _)
Nesting(lines, i, stack, deepest) ==
    IF i > Len(lines) THEN [stack |-> stack, deepest |-> deepest]
    ELSE LET l == lines[i] IN
         IF IsHeader(l)
         THEN Nesting(lines, i + 1,
                      Append(stack, IF starts_with(l, "if ") THEN "if" ELSE "block"),
                      IF Len(stack) + 1 > deepest THEN Len(stack) + 1 ELSE deepest)
         ELSE IF l = "else"
         THEN (IF Len(stack) > 0 /\ stack[Len(stack)] = "if"
               THEN Nesting(lines, i + 1, [stack EXCEPT ![Len(stack)] = "else"], deepest)
               ELSE [stack |-> <<"bad">>, deepest |-> deepest])
         ELSE IF l = "end"
         THEN (IF Len(stack) > 0
               THEN Nesting(lines, i + 1, SubSeq(stack, 1, Len(stack) - 1), deepest)
               ELSE [stack |-> <<"bad">>, deepest |-> deepest])
         ELSE Nesting(lines, i + 1, stack, deepest)

\* every block of the text is closed by an `end' of its own
WellNested(lines) == Nesting(lines, 1, << >>, 0).stack = << >>
\* some block of the text lies in the body of another
HasNestedBlock(lines) == Nesting(lines, 1, << >>, 0).deepest >= 2

\* the lines of the text outside every block, terminators not counted
RECURSIVE TopLevelItems(_, _, _)
TopLevelItems(lines, i, depth) ==
    IF i > Len(lines) THEN 0
    ELSE IF IsHeader(lines[i])
         THEN (IF depth = 0 THEN 1 ELSE 0) + TopLevelItems(lines, i + 1, depth + 1)
    ELSE IF lines[i] = "end" THEN TopLevelItems(lines, i + 1, depth - 1)
    ELSE IF lines[i] = "else" THEN TopLevelItems(lines, i + 1, depth)
    ELSE (IF depth = 0 THEN 1 ELSE 0) + TopLevelItems(lines, i + 1, depth)

CountLines(lines, Test(_)) == Cardinality({i \in 1..Len(lines) : Test(lines[i])})

\* the statements of a parsed program, nested ones included: those of blocks
\* and the others
RECURSIVE CountStmts(_, _)
CountStmts(stmts, blocks) ==
    IF stmts = << >> THEN 0
    ELSE LET s == Head(stmts)
             inner == CASE s.kind = "If" -> CountStmts(s.t, blocks) + CountStmts(s.e, blocks)
                        [] s.kind \in {"While", "FuncDef"} -> CountStmts(s.body, blocks)
                        [] OTHER -> 0
             self == IF (s.kind \in {"If", "While", "FuncDef"}) = blocks THEN 1 ELSE 0
         IN  self + inner + CountStmts(Tail(stmts), blocks)

\* C6 (as claimed): in a script whose blocks are each closed by their own
\* `end' and where a block body holds a nested block, every line belongs to
\* exactly one parsed statement (as many block statements as header lines, as
\* many other statements as other lines), each top-level statement ends at its
\* own terminator (as many top-level statements as lines outside every block)
\* and no top-level statement is made of a terminator line.
C6_NestedBlocksParse ==
    ( /\ mode = "script"
      /\ phase \in {"run", "stopped", "done", "looping"}
      /\ src # NoFile
      /\ WellNested(program_lines(src))
      /\ HasNestedBlock(program_lines(src)) )
    => /\ CountStmts(prog, TRUE) = CountLines(program_lines(src), IsHeader)
       /\ CountStmts(prog, FALSE) = CountLines(program_lines(src), IsSimple)
       /\ Len(prog) = TopLevelItems(program_lines(src), 1, 0)
       /\ \A i \in 1..Len(prog) :
             prog[i] \notin {ExprStmt(Var("end")), ExprStmt(Var("else"))}

\* the same statement for scripts without nested blocks, which the parser
\* does parse line by line
C6_FlatBlocksParse ==
    ( /\ mode = "script"
      /\ phase \in {"run", "stopped", "done", "looping"}
      /\ src # NoFile
      /\ WellNested(program_lines(src))
      /\ ~HasNestedBlock(program_lines(src)) )
    => /\ CountStmts(prog, TRUE) = CountLines(program_lines(src), IsHeader)
       /\ CountStmts(prog, FALSE) = CountLines(program_lines(src), IsSimple)
       /\ Len(prog) = TopLevelItems(program_lines(src), 1, 0)
       /\ \A i \in 1..Len(prog) :
             prog[i] \notin {ExprStmt(Var("end")), ExprStmt(Var("else"))}

====
